---- MODULE Spec2Model ----
(***************************************************************************)
(* The ideas platform of src/code.py: two SQLite tables (users, ideas),    *)
(* five helper functions over them (add_user, get_users, add_idea,         *)
(* get_ideas, vote_idea) and the three pages of the Streamlit script that  *)
(* call them.  Streamlit runs the script once per user interaction, each   *)
(* run on its own connection to ideas.db, so concurrent runs meet only in  *)
(* the database file: a write statement takes SQLite's write lock and      *)
(* conn.commit() publishes the change and releases it.                     *)
(*                                                                         *)
(* Spec     the deployed script: browser sessions click through the pages. *)
(* SpecApi  the helper functions called directly, one call at a time, by   *)
(*          an arbitrary caller, with arguments the pages never pass.      *)
(***************************************************************************)
EXTENDS Integers, Sequences, FiniteSets, TLC

\* ------------------------------------------------------------ bounds
MaxUsers == 2
MaxIdeas == 2
MaxVotes == 2
\* the ideas the sessions of Spec submit
MaxSubmitted == 1

Sessions == {1, 2}

\* ------------------------------------------------------------ inputs
Roles == {"citizen", "sergeant", "expert", "activist"}
Privileged == {"sergeant", "expert", "activist"}

Names == {"", "Amal"}
Titles == {"", "Water"}
Descriptions == {"", "desc"}
Dates == {"2024-01-01 10:00"}
\* the roles the sessions of Spec pick in the selectbox
PickedRoles == {"citizen", "expert"}
\* what the caller of SpecApi registers: every role, and an empty name
ApiRegistrations == {<<"Amal", role>> : role \in Roles} \cup {<<"", "citizen">>}
\* what the caller of SpecApi passes for an idea's texts
ApiTitles == {"Water"}
ApiDescriptions == {"desc"}

VARIABLES
    users,      \* table users, in rowid order: [id, name, role]
    ideas,      \* table ideas, in rowid order: [id, title, description, author_id, date, votes]
    lock,       \* the session holding SQLite's write lock on ideas.db, 0 when free
    pc,         \* per session: "idle", or "commit" between c.execute and conn.commit
    txn,        \* per session: the statement executed and the tables as its connection sees them
    outcome,    \* what the last run or call gave back: a Streamlit message or an exception
    call,       \* SpecApi: the helper last called and its key argument
    completed   \* history: per idea id, the vote_idea calls on it that have returned

vars == <<users, ideas, lock, pc, txn, outcome, call, completed>>

Range(s) == {s[i] : i \in DOMAIN s}

\* ------------------------------------------------------------ tables
NextId_reused(tbl) == 1

\* INTEGER PRIMARY KEY AUTOINCREMENT: one more than the largest rowid so far
NextId(tbl) == IF tbl = <<>> THEN 1 ELSE tbl[Len(tbl)].id + 1

\* the votes cast so far, over all ideas
RECURSIVE VotesCast(_)
VotesCast(is) ==
    IF is = <<>> THEN 0 ELSE is[Len(is)].votes + VotesCast(SubSeq(is, 1, Len(is) - 1))

UserIds(us) == {us[k].id : k \in DOMAIN us}
IdeaIds(is) == {is[k].id : k \in DOMAIN is}

\* ------------------------------------------------------------ helper functions
add_user(us, name, role) ==
    Append(us, [id |-> NextId(us), name |-> name, role |-> role])

get_users(us) == us

add_idea(is, title, description, author_id, date_str) ==
    Append(is, [id |-> NextId(is), title |-> title, description |-> description,
                author_id |-> author_id, date |-> date_str, votes |-> 0])

vote_idea_all(is, idea_id) ==
    [k \in DOMAIN is |-> [is[k] EXCEPT !.votes = @ + 1]]

vote_idea(is, idea_id) ==
    [k \in DOMAIN is |->
        IF is[k].id = idea_id THEN [is[k] EXCEPT !.votes = @ + 1] ELSE is[k]]

\* CASE WHEN users.role IN ('sergeant', 'expert', 'activist') THEN 1 ELSE 0 END
Tier(role) == IF role \in Privileged THEN 1 ELSE 0

\* ideas JOIN users ON ideas.author_id = users.id: ideas are scanned in rowid
\* order, each matched with the user of that id; an idea without one yields no row
Joined(is, us) ==
    LET matched == SelectSeq(is, LAMBDA r : r.author_id \in UserIds(us))
        author(r) == CHOOSE u \in Range(us) : u.id = r.author_id
    IN  [k \in DOMAIN matched |->
            [id |-> matched[k].id, title |-> matched[k].title,
             description |-> matched[k].description, date |-> matched[k].date,
             votes |-> matched[k].votes,
             name |-> author(matched[k]).name, role |-> author(matched[k]).role]]

OrderedBefore_votes_only(a, b) == a.votes > b.votes

\* ORDER BY tier DESC, votes DESC: a sorts strictly before b
OrderedBefore(a, b) ==
    \/ Tier(a.role) > Tier(b.role)
    \/ Tier(a.role) = Tier(b.role) /\ a.votes > b.votes

\* the sorter keeps rows that tie on both keys in the order they were produced
InsertRow(sorted, row) ==
    LET before == {k \in DOMAIN sorted : ~OrderedBefore(row, sorted[k])}
        n == IF \A k \in DOMAIN sorted : k \in before THEN Len(sorted)
             ELSE (CHOOSE k \in DOMAIN sorted :
                      /\ k \notin before
                      /\ \A j \in 1..(k - 1) : j \in before) - 1
    IN  SubSeq(sorted, 1, n) \o <<row>> \o SubSeq(sorted, n + 1, Len(sorted))

RECURSIVE OrderBy(_)
OrderBy(rows) ==
    IF rows = <<>> THEN <<>>
    ELSE InsertRow(OrderBy(SubSeq(rows, 1, Len(rows) - 1)), rows[Len(rows)])

get_ideas(is, us) == OrderBy(Joined(is, us))

\* ------------------------------------------------------------ pages
\* {f"{u[1]} ({u[2]})": u[0] for u in users}: a later user with the same label
\* replaces an earlier one
user_dict(us) ==
    [l \in {<<us[k].name, us[k].role>> : k \in DOMAIN us} |->
        LET ks == {k \in DOMAIN us : <<us[k].name, us[k].role>> = l}
        IN  us[CHOOSE k \in ks : \A j \in ks : j <= k].id]

NoTxn == [op |-> "none", arg |-> <<>>, users |-> <<>>, ideas |-> <<>>]
NoCall == [op |-> "none", arg |-> <<>>]

Init ==
    /\ users = <<>>
    /\ ideas = <<>>
    /\ lock = 0
    /\ pc = [s \in Sessions |-> "idle"]
    /\ txn = [s \in Sessions |-> NoTxn]
    /\ outcome = "none"
    /\ call = NoCall
    /\ completed = [i \in 1..(MaxIdeas + 1) |-> 0]

\* ------------------------------------------------------------ Spec: the script
WriteLockFree_unlocked == TRUE

\* no other connection holds the write lock of ideas.db
WriteLockFree == lock = 0

\* c.execute of an INSERT or UPDATE: the connection opens a transaction, takes
\* the write lock and changes its own view of the tables
Execute(s, op, arg, us, is) ==
    /\ WriteLockFree
    /\ lock' = s
    /\ pc' = [pc EXCEPT ![s] = "commit"]
    /\ txn' = [txn EXCEPT ![s] = [op |-> op, arg |-> arg, users |-> us, ideas |-> is]]
    /\ UNCHANGED <<users, ideas, outcome, call, completed>>

\* conn.commit(), and what the page does after the helper returned
Commit(s) ==
    /\ pc[s] = "commit"
    /\ users' = txn[s].users
    /\ ideas' = txn[s].ideas
    /\ lock' = 0
    /\ pc' = [pc EXCEPT ![s] = "idle"]
    /\ txn' = [txn EXCEPT ![s] = NoTxn]
    /\ outcome' = IF txn[s].op = "vote_idea" THEN "none" ELSE "success"
    /\ completed' =
         IF txn[s].op = "vote_idea" /\ txn[s].arg[1] \in IdeaIds(txn[s].ideas)
         THEN [completed EXCEPT ![txn[s].arg[1]] = @ + 1]
         ELSE completed
    /\ UNCHANGED call

\* a write statement that finds the database locked gives up after the
\* connection's timeout: sqlite3.OperationalError ends the run
Locked(s) ==
    /\ pc[s] = "idle"
    /\ ~WriteLockFree
    /\ outcome' = "OperationalError"
    /\ UNCHANGED <<users, ideas, lock, pc, txn, call, completed>>

\* page "Add User", button Register
RegisterClick(s, name, role) ==
    /\ pc[s] = "idle"
    /\ IF name # ""
       THEN /\ Len(users) < MaxUsers
            /\ Execute(s, "add_user", <<name, role>>, add_user(users, name, role), ideas)
       ELSE /\ outcome' = "error"
            /\ UNCHANGED <<users, ideas, lock, pc, txn, call, completed>>

\* page "Submit Idea": the form and its button when there are users, a warning
\* when there are none
SubmitClick(s, label, title, description, date_str) ==
    /\ pc[s] = "idle"
    /\ IF get_users(users) # <<>>
       THEN /\ label \in DOMAIN user_dict(get_users(users))
            /\ Len(ideas) < MaxSubmitted
            /\ Execute(s, "add_idea",
                       <<title, description, user_dict(get_users(users))[label]>>,
                       users,
                       add_idea(ideas, title, description,
                                user_dict(get_users(users))[label], date_str))
       ELSE /\ outcome' = "warning"
            /\ UNCHANGED <<users, ideas, lock, pc, txn, call, completed>>

\* page "View Ideas" with no button pressed
ViewIdeas(s) ==
    /\ pc[s] = "idle"
    /\ outcome' = IF get_ideas(ideas, users) = <<>> THEN "info" ELSE "none"
    /\ UNCHANGED <<users, ideas, lock, pc, txn, call, completed>>

\* page "View Ideas", button "Vote for <id>" of one of the rows shown
VoteClick(s, idea_id) ==
    /\ pc[s] = "idle"
    /\ VotesCast(ideas) < MaxVotes
    /\ \E k \in DOMAIN get_ideas(ideas, users) : get_ideas(ideas, users)[k].id = idea_id
    /\ Execute(s, "vote_idea", <<idea_id>>, users, vote_idea(ideas, idea_id))

Next ==
    \E s \in Sessions :
        \/ \E name \in Names, role \in PickedRoles : RegisterClick(s, name, role)
        \/ \E label \in Names \X PickedRoles, title \in Titles,
              description \in Descriptions, date_str \in Dates :
                SubmitClick(s, label, title, description, date_str)
        \/ ViewIdeas(s)
        \/ \E idea_id \in 1..MaxSubmitted : VoteClick(s, idea_id)
        \/ Commit(s)
        \/ Locked(s)

Spec == Init /\ [][Next]_vars

\* ------------------------------------------------------------ SpecApi: the helpers
\* a helper called directly: its statement and its commit in one step; the
\* helpers that write return None and raise nothing
ApiAddUser(name, role) ==
    /\ Len(users) < MaxUsers
    /\ users' = add_user(users, name, role)
    /\ call' = [op |-> "add_user", arg |-> <<name>>]
    /\ outcome' = "none"
    /\ UNCHANGED <<ideas, lock, pc, txn, completed>>

ApiAddIdea(title, description, author_id, date_str) ==
    /\ Len(ideas) < MaxIdeas
    /\ ideas' = add_idea(ideas, title, description, author_id, date_str)
    /\ call' = [op |-> "add_idea", arg |-> <<author_id>>]
    /\ outcome' = "none"
    /\ UNCHANGED <<users, lock, pc, txn, completed>>

ApiVoteIdea(idea_id) ==
    /\ VotesCast(ideas) < MaxVotes
    /\ ideas' = vote_idea(ideas, idea_id)
    /\ call' = [op |-> "vote_idea", arg |-> <<idea_id>>]
    /\ outcome' = "none"
    /\ completed' = IF idea_id \in IdeaIds(ideas)
                    THEN [completed EXCEPT ![idea_id] = @ + 1]
                    ELSE completed
    /\ UNCHANGED <<users, lock, pc, txn>>

ApiGetIdeas ==
    /\ call' = [op |-> "get_ideas", arg |-> <<>>]
    /\ outcome' = "none"
    /\ UNCHANGED <<users, ideas, lock, pc, txn, completed>>

NextApi ==
    \/ \E reg \in ApiRegistrations : ApiAddUser(reg[1], reg[2])
    \/ \E title \in ApiTitles, description \in ApiDescriptions,
          author_id \in 1..(MaxUsers + 1), date_str \in Dates :
            ApiAddIdea(title, description, author_id, date_str)
    \/ \E idea_id \in 1..(MaxIdeas + 1) : ApiVoteIdea(idea_id)
    \/ ApiGetIdeas

SpecApi == Init /\ [][NextApi]_vars

\* ------------------------------------------------------------ claims
AuthorOf(idea) == CHOOSE u \in Range(users) : u.id = idea.author_id
HasAuthor(idea) == idea.author_id \in UserIds(users)
Count(us, name, role) ==
    Cardinality({k \in DOMAIN us : us[k].name = name /\ us[k].role = role})

\* C1: in the list get_ideas returns, every idea of a sergeant, expert or
\* activist stands before every idea of a citizen whatever their votes, and
\* within the privileged ideas and within the citizens' ideas the votes never
\* increase along the list.
C1_TierThenVotes ==
    LET rows == get_ideas(ideas, users)
    IN  /\ \A a \in Range(ideas), b \in Range(ideas) :
              (/\ HasAuthor(a) /\ AuthorOf(a).role \in Privileged
               /\ HasAuthor(b) /\ AuthorOf(b).role = "citizen")
              => \E i \in DOMAIN rows, j \in DOMAIN rows :
                    rows[i].id = a.id /\ rows[j].id = b.id /\ i < j
        /\ \A i \in DOMAIN rows, j \in DOMAIN rows :
              (/\ i < j
               /\ \/ rows[i].role \in Privileged /\ rows[j].role \in Privileged
                  \/ rows[i].role = "citizen" /\ rows[j].role = "citizen")
              => rows[i].votes >= rows[j].votes

\* get_ideas was called while a citizen's idea has more votes than a
\* privileged author's idea, which is still listed first
C1_Witness ==
    /\ call.op = "get_ideas"
    /\ \E i \in DOMAIN get_ideas(ideas, users), j \in DOMAIN get_ideas(ideas, users) :
          /\ i < j
          /\ get_ideas(ideas, users)[i].role \in Privileged
          /\ get_ideas(ideas, users)[j].role = "citizen"
          /\ get_ideas(ideas, users)[i].votes < get_ideas(ideas, users)[j].votes

\* C2: the votes of every idea equal the number of vote_idea calls on it that
\* have returned, however the sessions' calls interleave: no increment is lost.
C2_NoLostVote ==
    \A k \in DOMAIN ideas : ideas[k].votes = completed[ideas[k].id]

\* a vote is between its UPDATE and its commit on an idea another vote has
\* already been counted for
C2_Witness ==
    \E s \in Sessions :
        /\ pc[s] = "commit"
        /\ txn[s].op = "vote_idea"
        /\ completed[txn[s].arg[1]] >= 1

\* C3: add_idea with an author_id no user has fails with NotFoundError and
\* creates no idea row.
C3_UnknownAuthorRejected ==
    (call.op = "add_idea" /\ call.arg[1] \notin UserIds(users))
    => /\ outcome = "NotFoundError"
       /\ \A k \in DOMAIN ideas : ideas[k].author_id # call.arg[1]

\* C4: vote_idea with an id no idea has fails with NotFoundError, which the
\* caller sees.
C4_UnknownIdeaRejected ==
    (call.op = "vote_idea" /\ call.arg[1] \notin IdeaIds(ideas))
    => outcome = "NotFoundError"

\* C5: an idea with an empty title or an empty description is refused, by
\* add_idea and by the Submit Idea page that calls it: no such row is persisted.
C5_EmptyTextRejected ==
    \A k \in DOMAIN ideas : ideas[k].title # "" /\ ideas[k].description # ""

\* C6: add_user with an empty name fails with ValidationError and persists
\* nothing, so no user row has an empty name.
C6_EmptyNameRejected ==
    /\ \A k \in DOMAIN users : users[k].name # ""
    /\ (call.op = "add_user" /\ call.arg[1] = "") => outcome = "ValidationError"

\* C7 as stated: after a registration, get_users holds exactly one user with
\* the name and role just registered, under an id no earlier user has.
C7_ExactlyOneWithNameAndRole ==
    users # <<>> =>
        LET new == users[Len(users)]
        IN  /\ Count(get_users(users), new.name, new.role) = 1
            /\ \A k \in 1..(Len(users) - 1) : users[k].id # new.id

\* C7 as amended: a registration that returns has added exactly one user to
\* what get_users returns: a row with the name and role given, under an id no
\* earlier user has and no other row shares, so that the users with that name
\* and role are one more than before (exactly one when the pair is new).
C7_Registered ==
    [][\A s \in Sessions :
          (pc[s] = "commit" /\ txn[s].op = "add_user" /\ pc'[s] = "idle")
          => LET before == get_users(users)
                 after == get_users(users')
                 name == txn[s].arg[1]
                 role == txn[s].arg[2]
             IN  /\ Len(after) = Len(before) + 1
                 /\ \A k \in DOMAIN before : after[k] = before[k]
                 /\ after[Len(after)].name = name
                 /\ after[Len(after)].role = role
                 /\ after[Len(after)].id \notin UserIds(before)
                 /\ Count(after, name, role) = Count(before, name, role) + 1
                 /\ (Count(before, name, role) = 0 => Count(after, name, role) = 1)
      ]_vars

\* the same name and role registered twice: two rows, two ids
C7_Witness ==
    /\ Len(users) = 2
    /\ users[1].name = users[2].name
    /\ users[1].role = users[2].role
    /\ users[1].id # users[2].id
    /\ outcome = "success"

\* C8: get_ideas returns every stored idea exactly once, with the name and
\* role of its author.
C8_EveryIdeaListedOnce ==
    LET rows == get_ideas(ideas, users)
    IN  \A k \in DOMAIN ideas :
            /\ Cardinality({j \in DOMAIN rows : rows[j].id = ideas[k].id}) = 1
            /\ \A j \in DOMAIN rows :
                  rows[j].id = ideas[k].id
                  => /\ HasAuthor(ideas[k])
                     /\ rows[j].name = AuthorOf(ideas[k]).name
                     /\ rows[j].role = AuthorOf(ideas[k]).role

\* C10: votes are natural numbers; a new idea has none; a step leaves every
\* idea's votes alone unless it is the return of a vote_idea on that very idea,
\* which adds exactly one.
\* the step is the return of vote_idea(idea_id): a session's commit of it, or
\* the direct call the caller of SpecApi has just made
VoteReturns(idea_id) ==
    \/ \E s \in Sessions :
          /\ pc[s] = "commit" /\ pc'[s] = "idle"
          /\ txn[s].op = "vote_idea"
          /\ txn[s].arg[1] = idea_id
    \/ /\ call' = [op |-> "vote_idea", arg |-> <<idea_id>>]
       /\ pc' = pc

C10_VoteStep ==
    /\ Len(ideas') >= Len(ideas)
    /\ \A k \in DOMAIN ideas' :
          IF k \in DOMAIN ideas
          THEN /\ ideas'[k].id = ideas[k].id
               /\ \/ ideas'[k].votes = ideas[k].votes
                  \/ /\ ideas'[k].votes = ideas[k].votes + 1
                     /\ VoteReturns(ideas[k].id)
          ELSE ideas'[k].votes = 0
    /\ \A k \in DOMAIN ideas :
          VoteReturns(ideas[k].id) => ideas'[k].votes = ideas[k].votes + 1

C10_VotesOnlyGrowByVote ==
    /\ [](\A k \in DOMAIN ideas : ideas[k].votes \in Nat)
    /\ [][C10_VoteStep]_vars

\* two ideas, one voted up to the bound and one never voted for
C10_Witness ==
    \E k \in DOMAIN ideas, j \in DOMAIN ideas :
        /\ call.op = "vote_idea"
        /\ ideas[k].votes = MaxVotes
        /\ completed[ideas[k].id] = MaxVotes
        /\ ideas[j].votes = 0

\* ------------------------------------------------------------ the pages as callers
\* What the pages guarantee the helpers: Register passes no empty name, and
\* Submit Idea passes the id of a user get_users returned, so under Spec no
\* user row has an empty name and every idea's author exists and is listed.
AppNoEmptyName == \A k \in DOMAIN users : users[k].name # ""
AppEveryIdeaHasAuthor == \A k \in DOMAIN ideas : HasAuthor(ideas[k])
AppEveryIdeaListed == C8_EveryIdeaListedOnce

====
